---- MODULE Spec2Model ----
(***************************************************************************)
(* A model of invest.py, the interactive investment research assistant.    *)
(*                                                                         *)
(* Spec      : the menu session of InvestmentApp.run with do_research,     *)
(*             lookup_stock and brain_rot_mode, and inside them            *)
(*             NewsAnalyzer.process_news_data article by article.          *)
(*                                                                         *)
(* Upstream services (the LLM, the quote API, the console) are the         *)
(* environment: every reply they can give is drawn with \E from a small    *)
(* set of shapes, a raised exception included.                             *)
(***************************************************************************)
EXTENDS Integers, Sequences, FiniteSets, TLC

---------------------------------------------------------------------------
(* Bounds of the model. *)

\* Articles in one discovery reply.
MaxArticles == 2

\* List elements (insight points, key players, tickers) that the extraction
\* replies of one process_news_data call carry in total.
MaxItems == 3

---------------------------------------------------------------------------
(* JSON values as the code sees them. *)

\* A JSON leaf: kind is its Python type, val its text.
JStr(s) == [kind |-> "str", val |-> s]
JNum(s) == [kind |-> "num", val |-> s]

\* The marker of a key that a JSON object does not carry.
Absent == [kind |-> "absent", val |-> ""]

\* One element of an extraction's 'tickers' list: a plain string, or an
\* object of which only the keys 'symbol' and 'ticker' matter.
TStr(s) == [kind |-> "str", val |-> s, symbol |-> Absent, ticker |-> Absent]
TDict(sym, tic) == [kind |-> "dict", val |-> "", symbol |-> sym, ticker |-> tic]

\* The ticker shapes an extraction reply is drawn from.
TickerItems ==
    { TStr("AAPL"),
      TDict(JStr("AAPL"), Absent),
      TDict(Absent, JStr("TSLA")),
      TDict(JStr("TSLA"), JStr("MSFT")),
      TDict(JNum("7"), Absent),
      TDict(Absent, Absent) }

\* Key player names: two of them differ only in letter case.
PlayerNames == {"Apple", "apple"}

InsightPoints == {"point"}

SeqsUpTo(S, n) == UNION { [1..k -> S] : k \in 0..n }

\* The object an extraction reply parses to; keys is the set of keys it has.
ExtractObject(keys, ins, kp, tk) ==
    [keys |-> keys, insights |-> ins, key_players |-> kp, tickers |-> tk]

EmptyObject == ExtractObject({}, <<>>, <<>>, <<>>)

\* dict.get(key, []) on a parsed extraction object.
DictGet(obj, key) == IF key \in obj.keys THEN obj[key] ELSE <<>>

\* The text of an LLM reply to an extraction request:
\*   "notjson" : json.loads raises JSONDecodeError
\*   "array"   : valid JSON that is not an object
\*   "object"  : a JSON object
ExtractText(k, obj) == [k |-> k, obj |-> obj]

\* The extraction replies that carry at most n list elements.
ExtractReplies(n) ==
    { ExtractText("notjson", EmptyObject), ExtractText("array", EmptyObject),
      ExtractText("object", EmptyObject) }
    \cup
    { ExtractText("object",
                  ExtractObject({"insights", "key_players", "tickers"}, ins, kp, tk)) :
        <<ins, kp, tk>> \in
          { t \in SeqsUpTo(InsightPoints, n) \X SeqsUpTo(PlayerNames, n)
                    \X SeqsUpTo(TickerItems, n) :
              Len(t[1]) + Len(t[2]) + Len(t[3]) <= n } }

\* One element of the discovery array: an object with or without the keys
\* 'url' and 'title'.  The url of the i-th element is i.
Article(hasUrl, hasTitle) == [has_url |-> hasUrl, has_title |-> hasTitle]

ArticleShapes == { Article(TRUE, TRUE), Article(TRUE, FALSE), Article(FALSE, TRUE) }

\* The text of the discovery reply: not JSON, a JSON number, or a JSON array.
DiscoveryText(k, arr) == [k |-> k, arr |-> arr]

\* The arrays of at most MaxArticles elements.  An element with 'url' and no
\* 'title' ends the scan with KeyError and the elements after it are never
\* read, so it is drawn as the last element only.
DiscoveryArrays ==
    { a \in SeqsUpTo(ArticleShapes, MaxArticles) :
        \A i \in 1..Len(a) : (a[i].has_url /\ ~a[i].has_title) => i = Len(a) }

DiscoveryReplies ==
    { DiscoveryText("notjson", <<>>), DiscoveryText("number", <<>>) }
    \cup { DiscoveryText("array", a) : a \in DiscoveryArrays }

---------------------------------------------------------------------------
(* State. *)

VARIABLES
    all_insights,      \* Config.all_insights
    all_key_players,   \* Config.all_key_players
    all_tickers,       \* Config.all_tickers
    status,            \* "running", "exited" (sys.exit(0)) or "crashed"
    exc,               \* the exception that left the running action, or "none"
    action,            \* the menu action in progress
    pc,                \* the place in that action
    news_data,         \* process_news_data: its argument
    urls,              \* process_news_data: the urls collected
    ret,               \* process_news_data: "unset", "True" or "False"
    extract_calls,     \* the log of extract_insights_from_url calls of this
                       \* process_news_data call: url and reply
    menu_choice,       \* run: the menu choice being served, "none" at the menu
    steps,             \* what the action in progress has done so far
    stock,             \* one call of StockAnalyzer.get_stock_info_with_api
    voice,             \* one call of BrainRotGenerator.select_voice
    speech,            \* one call of BrainRotGenerator.text_to_speech
    video              \* one call of BrainRotGenerator.create_brain_rot_video

vars == << all_insights, all_key_players, all_tickers, status, exc, action, pc,
           news_data, urls, ret, extract_calls, menu_choice, steps,
           stock, voice, speech, video >>

aggregates == << all_insights, all_key_players, all_tickers >>
pnd_locals == << news_data, urls, ret, extract_calls >>
run_locals == << menu_choice, steps >>

\* The calls that SpecStock, SpecVoice, SpecSpeech and SpecVideo follow on
\* their own.
side == << stock, voice, speech, video >>

NoNews == DiscoveryText("none", <<>>)

\* No call in progress.
Idle == [pc |-> "idle"]

\* The session after InvestmentApp.__init__ (lines 98-100, 709-714).
InitSession ==
    /\ all_insights = <<>>
    /\ all_key_players = <<>>
    /\ all_tickers = <<>>
    /\ status = "running"
    /\ exc = "none"
    /\ action = "none"
    /\ pc = "menu"
    /\ news_data = NoNews
    /\ urls = <<>>
    /\ ret = "unset"
    /\ extract_calls = <<>>
    /\ menu_choice = "none"
    /\ steps = <<>>

Init == InitSession /\ stock = Idle /\ voice = Idle /\ speech = Idle /\ video = Idle

---------------------------------------------------------------------------
(* NewsAnalyzer.process_news_data, lines 361-416. *)

\* x in list
InList(x, list) == \E i \in 1..Len(list) : list[i] = x

\* The url scan raises KeyError at the first element that has 'url' and no
\* 'title' (article['title'] is printed for every element with a url).
ScanRaises(nd) == \E i \in 1..Len(nd) : nd[i].has_url /\ ~nd[i].has_title

\* urls.append(article['url']) for the elements i..Len(nd) that have 'url'.
RECURSIVE CollectUrls(_, _)
CollectUrls(nd, i) ==
    IF i > Len(nd) THEN <<>>
    ELSE IF nd[i].has_url THEN <<i>> \o CollectUrls(nd, i + 1)
    ELSE CollectUrls(nd, i + 1)

\* AddPlayer without its membership test.
AddPlayer_Unchecked(players, player) == Append(players, player)

\* AddPlayer comparing names without regard to letter case.
Lower(name) == IF name = "Apple" THEN "apple" ELSE name

AddPlayer_CaseFolded(players, player) ==
    IF \E i \in 1..Len(players) : Lower(players[i]) = Lower(player)
    THEN players ELSE Append(players, player)

\* if player not in all_key_players: all_key_players.append(player)
AddPlayer(players, player) ==
    IF ~InList(player, players) THEN Append(players, player) ELSE players

RECURSIVE AddPlayers(_, _)
AddPlayers(players, new) ==
    IF new = <<>> THEN players
    ELSE AddPlayers(AddPlayer(players, Head(new)), Tail(new))

\* AddTicker reading the key 'ticker' only, as display_insights does.
AddTicker_TickerKeyOnly(tickers, t) ==
    IF t.kind = "str" /\ ~InList(JStr(t.val), tickers)
    THEN Append(tickers, JStr(t.val))
    ELSE IF t.kind = "dict" /\ t.ticker # Absent
    THEN IF ~InList(t.ticker, tickers) THEN Append(tickers, t.ticker) ELSE tickers
    ELSE tickers

\* AddTicker going on to the key 'ticker' when the 'symbol' is a duplicate.
AddTicker_FallsThroughToTicker(tickers, t) ==
    IF t.kind = "str" /\ ~InList(JStr(t.val), tickers)
    THEN Append(tickers, JStr(t.val))
    ELSE IF t.kind = "dict" /\ t.symbol # Absent /\ ~InList(t.symbol, tickers)
    THEN Append(tickers, t.symbol)
    ELSE IF t.kind = "dict" /\ t.ticker # Absent
    THEN IF ~InList(t.ticker, tickers) THEN Append(tickers, t.ticker) ELSE tickers
    ELSE tickers

\* The if / elif / elif of lines 403-414 for one element of 'tickers'.
AddTicker(tickers, t) ==
    IF t.kind = "str" /\ ~InList(JStr(t.val), tickers)
    THEN Append(tickers, JStr(t.val))
    ELSE IF t.kind = "dict" /\ t.symbol # Absent
    THEN IF ~InList(t.symbol, tickers) THEN Append(tickers, t.symbol) ELSE tickers
    ELSE IF t.kind = "dict" /\ t.ticker # Absent
    THEN IF ~InList(t.ticker, tickers) THEN Append(tickers, t.ticker) ELSE tickers
    ELSE tickers

RECURSIVE AddTickers(_, _)
AddTickers(tickers, new) ==
    IF new = <<>> THEN tickers
    ELSE AddTickers(AddTicker(tickers, Head(new)), Tail(new))

\* The record appended to all_insights, lines 389-394.
InsightRecord(url, result) ==
    [url |-> url,
     insights |-> DictGet(result, "insights"),
     key_players |-> DictGet(result, "key_players"),
     tickers |-> DictGet(result, "tickers")]

\* extract_insights_from_url, lines 348-352: what json.loads and its except
\* clause make of the reply text.  "object" replies parse to their object, a
\* reply that is not JSON to the empty record.
ParsedExtraction(text) ==
    IF text.k = "notjson"
    THEN ExtractObject({"insights", "key_players", "tickers"}, <<>>, <<>>, <<>>)
    ELSE text.obj

\* The list elements the records of all_insights hold.
RECURSIVE ItemsIn(_)
ItemsIn(recs) ==
    IF recs = <<>> THEN 0
    ELSE Len(Head(recs).insights) + Len(Head(recs).key_players)
         + Len(Head(recs).tickers) + ItemsIn(Tail(recs))

\* An exception that nothing catches before InvestmentApp.run: run handles
\* KeyboardInterrupt only, so the process dies with a traceback.
Crash(e) ==
    /\ status' = "crashed"
    /\ exc' = e

NoCrash == UNCHANGED << status, exc >>

\* Lines 361-370: the loop over news_data.  exc is the exception it raises
\* ("none" when it completes), urls the list it built.
ScanArticles(nd) ==
    IF nd.k # "array"
    THEN [exc |-> "TypeError", urls |-> <<>>]
    ELSE IF ScanRaises(nd.arr)
    THEN [exc |-> "KeyError", urls |-> <<>>]
    ELSE [exc |-> "none", urls |-> CollectUrls(nd.arr, 1)]

\* The reset moved before the early return.
AggregatesAfterScan_ResetFirst(found, aggs) == << <<>>, <<>>, <<>> >>

\* Lines 372-380: with no url the aggregates stay as they are (the early
\* return comes first), otherwise the three of them are reset.
AggregatesAfterScan(found, aggs) ==
    IF found = <<>> THEN aggs ELSE << <<>>, <<>>, <<>> >>

\* The entry of the call log for one extract_insights_from_url call.
ExtractCall(url, reply) == [url |-> url, reply |-> reply]

\* responses.create raised instead of replying.
Raised == ExtractText("raise", EmptyObject)

\* One turn of the loop of lines 386-414: extract_insights_from_url on the
\* next url, then the record and the two folds.
ExtractArticle ==
    /\ status = "running"
    /\ UNCHANGED side
    /\ pc = "extract"
    /\ Len(extract_calls) < Len(urls)
    /\ LET url == urls[Len(extract_calls) + 1] IN
       /\ UNCHANGED << action, pc, news_data, urls, ret, run_locals >>
       /\ \/ \* responses.create raises: nothing catches it
             /\ extract_calls' = Append(extract_calls, ExtractCall(url, Raised))
             /\ Crash("APIError")
             /\ UNCHANGED aggregates
          \/ \E text \in ExtractReplies(MaxItems - ItemsIn(all_insights)) :
                /\ extract_calls' = Append(extract_calls, ExtractCall(url, text))
                /\ IF text.k = "array"
                   THEN \* result.get on a list: AttributeError
                        /\ Crash("AttributeError")
                        /\ UNCHANGED aggregates
                   ELSE LET result == ParsedExtraction(text) IN
                        /\ all_insights' =
                               Append(all_insights, InsightRecord(url, result))
                        /\ all_key_players' =
                               AddPlayers(all_key_players, DictGet(result, "key_players"))
                        /\ all_tickers' =
                               AddTickers(all_tickers, DictGet(result, "tickers"))
                        /\ NoCrash

\* Line 416: return True once every url has been processed.
ReturnTrue ==
    /\ status = "running"
    /\ UNCHANGED side
    /\ pc = "extract"
    /\ Len(extract_calls) = Len(urls)
    /\ ret' = "True"
    /\ pc' = "pnd_return"
    /\ NoCrash
    /\ UNCHANGED << aggregates, action, news_data, urls, extract_calls, run_locals >>

---------------------------------------------------------------------------
(* InvestmentApp: run, do_research, lookup_stock, brain_rot_mode. *)

\* What display_menu returns, line 151: the typed line as it is.
MenuChoices == {"1", "2", "3", "4", "5", "", "6", " 1"}

\* The locals of a finished call are gone.
ClearLocals ==
    /\ news_data' = NoNews
    /\ urls' = <<>>
    /\ ret' = "unset"
    /\ extract_calls' = <<>>

\* The action returns and the loop of line 835 shows the menu again.
BackToMenu ==
    /\ pc' = "menu"
    /\ action' = "none"
    /\ menu_choice' = "none"
    /\ steps' = <<>>
    /\ ClearLocals

\* sys.exit(0), lines 855 and 864: the process and its locals are gone.
Exit ==
    /\ status' = "exited"
    /\ pc' = "end"
    /\ action' = "none"
    /\ steps' = <<>>
    /\ ClearLocals

\* A chain whose third branch runs the research action.
Dispatch_PlaceholderRunsResearch(typed) ==
    CASE typed \in {"1", "3"} -> "research"
      [] typed = "2" -> "lookup"
      [] typed = "4" -> "brain_rot"
      [] typed = "5" -> "exit"
      [] OTHER -> "invalid"

\* The if / elif chain of lines 839-858.
Dispatch(typed) ==
    CASE typed = "1" -> "research"
      [] typed = "2" -> "lookup"
      [] typed = "3" -> "placeholder"
      [] typed = "4" -> "brain_rot"
      [] typed = "5" -> "exit"
      [] OTHER -> "invalid"

\* Where an action starts.
Entry(act) ==
    CASE act \in {"research", "brain_rot"} -> "query"
      [] act = "lookup" -> "ticker"
      [] OTHER -> "message"

\* run, lines 835-858: one menu choice and its dispatch.
Choose ==
    /\ status = "running"
    /\ UNCHANGED side
    /\ pc = "menu"
    /\ UNCHANGED << aggregates, exc >>
    /\ \E typed \in MenuChoices :
         /\ menu_choice' = typed
         /\ IF typed = "5"
            THEN Exit
            ELSE /\ action' = Dispatch(typed)
                 /\ pc' = Entry(Dispatch(typed))
                 /\ UNCHANGED << status, steps, pnd_locals >>

\* Lines 843-846 and 856-858: the placeholder of choice '3' and the message
\* for any other line, after which the loop shows the menu again.
ShowMessage ==
    /\ status = "running"
    /\ UNCHANGED side
    /\ pc = "message"
    /\ NoCrash
    /\ UNCHANGED aggregates
    /\ BackToMenu

\* run, lines 859-864: a KeyboardInterrupt anywhere in the loop ends the
\* process with sys.exit(0).
Interrupt ==
    /\ status = "running"
    /\ UNCHANGED side
    /\ Exit
    /\ exc' = "KeyboardInterrupt"
    /\ UNCHANGED << aggregates, menu_choice >>

\* do_research lines 723-727, brain_rot_mode lines 780-784: the query prompt.
EnterQuery ==
    /\ status = "running"
    /\ UNCHANGED side
    /\ pc = "query"
    /\ NoCrash
    /\ UNCHANGED aggregates
    /\ \E user_query \in {"", "ev"} :
         IF user_query = ""
         THEN BackToMenu
         ELSE pc' = "find" /\ UNCHANGED << action, pnd_locals, run_locals >>

\* Lines 730-737 and 787-794: find_news_stories (lines 321-328) called
\* outside the try block, json.loads of its text under
\* except json.JSONDecodeError, and process_news_data up to its early return
\* or its reset (lines 361-380).
FindNewsStories ==
    /\ status = "running"
    /\ UNCHANGED side
    /\ pc = "find"
    /\ \/ /\ Crash("APIError")
          /\ UNCHANGED << aggregates, action, pc, pnd_locals, run_locals >>
       \/ \E text \in DiscoveryReplies :
            IF text.k = "notjson"
            THEN NoCrash /\ BackToMenu /\ UNCHANGED aggregates
            ELSE LET scan == ScanArticles(text) IN
                 /\ news_data' = text
                 /\ urls' = scan.urls
                 /\ extract_calls' = <<>>
                 /\ UNCHANGED << action, run_locals >>
                 /\ IF scan.exc # "none"
                    THEN /\ Crash(scan.exc)
                         /\ UNCHANGED << aggregates, pc, ret >>
                    ELSE /\ NoCrash
                         /\ LET aggs == AggregatesAfterScan(scan.urls, aggregates) IN
                              /\ all_insights' = aggs[1]
                              /\ all_key_players' = aggs[2]
                              /\ all_tickers' = aggs[3]
                         /\ ret' = IF scan.urls = <<>> THEN "False" ELSE "unset"
                         /\ pc' = IF scan.urls = <<>> THEN "pnd_return" ELSE "extract"

\* The caller's if on the value process_news_data returned, lines 737 and 794.
AfterProcess ==
    /\ status = "running"
    /\ UNCHANGED side
    /\ pc = "pnd_return"
    /\ NoCrash
    /\ UNCHANGED aggregates
    /\ IF ret = "False"
       THEN BackToMenu
       ELSE /\ pc' = IF action = "research" THEN "display" ELSE "generate"
            /\ steps' = Append(steps, "process_true")
            /\ UNCHANGED << action, menu_choice >>
            /\ ClearLocals

\* if ticker: of display_stock_prices, line 294.
Truthy(leaf) == leaf.val # ""

\* do_research lines 739-744: display_insights, the y/n prompt and
\* display_stock_prices, which calls get_stock_info_with_api for every
\* truthy ticker; that call raises what its LLM requests raise.
ShowResearch ==
    /\ status = "running"
    /\ UNCHANGED side
    /\ pc = "display"
    /\ UNCHANGED aggregates
    /\ \E choice \in {"y", "n"} :
         \/ NoCrash /\ BackToMenu
         \/ /\ choice = "y"
            /\ \E i \in 1..Len(all_tickers) : Truthy(all_tickers[i])
            /\ Crash("APIError")
            /\ UNCHANGED << action, pc, pnd_locals, run_locals >>

\* ', '.join(...) of lines 453-454 raises TypeError on an entry that is not
\* a string.
JoinRaises(list) == \E i \in 1..Len(list) : list[i].kind # "str"

\* generate_brain_rot_explanation, lines 425-464, called at line 796.
GenerateExplanation ==
    /\ status = "running"
    /\ UNCHANGED side
    /\ pc = "generate"
    /\ UNCHANGED << aggregates, action, pnd_locals, menu_choice >>
    /\ IF JoinRaises(all_tickers)
       THEN Crash("TypeError") /\ UNCHANGED << pc, steps >>
       ELSE \/ Crash("APIError") /\ UNCHANGED << pc, steps >>
            \/ pc' = "ask_video" /\ steps' = Append(steps, "narration") /\ NoCrash

\* choice.lower(), lines 743 and 807
PyLower(answer) == IF answer = "Y" THEN "y" ELSE answer

\* brain_rot_mode lines 806-807: the y/n prompt.
AskVideo ==
    /\ status = "running"
    /\ UNCHANGED side
    /\ pc = "ask_video"
    /\ NoCrash
    /\ UNCHANGED << aggregates, action, pnd_locals, menu_choice >>
    /\ \E answer \in {"y", "Y", "n", ""} :
         IF PyLower(answer) = "y"
         THEN pc' = "speech" /\ steps' = Append(steps, "yes")
         ELSE pc' = "enter" /\ steps' = Append(steps, "no")

\* What text_to_speech hands back, lines 533-585: the path, None, or the
\* KeyError that leaves select_voice.
SpeechResults == {"speech.mp3", "None", "KeyError"}

\* The entry of steps for what a call handed back.
Outcome(call, result) ==
    IF result = "None"
    THEN IF call = "speech" THEN "speech_null" ELSE "compose_null"
    ELSE IF call = "speech" THEN "speech_path" ELSE "compose_path"

\* A test that takes any result for a path.
PathGiven_Always(path) == TRUE

\* if speech_file: and if result_file:, lines 811 and 818
PathGiven(path) == path \notin {"None", ""}

\* brain_rot_mode lines 809-811 and 823-824: text_to_speech and the test of
\* its result.
Synthesize ==
    /\ status = "running"
    /\ UNCHANGED side
    /\ pc = "speech"
    /\ UNCHANGED << aggregates, action, pnd_locals, menu_choice >>
    /\ \E speech_file \in SpeechResults :
         IF speech_file = "KeyError"
         THEN /\ Crash("KeyError")
              /\ steps' = Append(steps, "synthesis")
              /\ UNCHANGED pc
         ELSE LET done == steps \o << "synthesis", Outcome("speech", speech_file) >> IN
              /\ NoCrash
              /\ IF PathGiven(speech_file)
                 THEN steps' = done /\ pc' = "compose"
                 ELSE steps' = Append(done, "failure") /\ pc' = "enter"

\* What create_brain_rot_video hands back, lines 613-703.
VideoResults == {"brain_rot_result.mp4", "None"}

\* brain_rot_mode lines 813-822: get_subway_surfers_video,
\* create_brain_rot_video and the report.
ComposeVideo ==
    /\ status = "running"
    /\ UNCHANGED side
    /\ pc = "compose"
    /\ NoCrash
    /\ UNCHANGED << aggregates, action, pnd_locals, menu_choice >>
    /\ pc' = "enter"
    /\ \E result_file \in VideoResults :
         LET done == steps \o << "locate", "compose", Outcome("compose", result_file) >> IN
         steps' = Append(done, IF PathGiven(result_file) THEN "success" ELSE "failure")

\* brain_rot_mode line 826: the Enter prompt.
PressEnter ==
    /\ status = "running"
    /\ UNCHANGED side
    /\ pc = "enter"
    /\ NoCrash
    /\ UNCHANGED aggregates
    /\ BackToMenu

\* lookup_stock, lines 757-771.
LookupStock ==
    /\ status = "running"
    /\ UNCHANGED side
    /\ pc = "ticker"
    /\ UNCHANGED aggregates
    /\ \E ticker \in {"", "AAPL"} :
         \/ NoCrash /\ BackToMenu
         \/ /\ ticker # ""
            /\ Crash("APIError")
            /\ UNCHANGED << action, pc, pnd_locals, run_locals >>

Next ==
    \/ Choose
    \/ ShowMessage
    \/ Interrupt
    \/ EnterQuery
    \/ FindNewsStories
    \/ ExtractArticle
    \/ ReturnTrue
    \/ AfterProcess
    \/ ShowResearch
    \/ GenerateExplanation
    \/ AskVideo
    \/ Synthesize
    \/ ComposeVideo
    \/ PressEnter
    \/ LookupStock

Spec == Init /\ [][Next]_vars

---------------------------------------------------------------------------
(* StockAnalyzer: get_stock_info and get_stock_info_with_api.              *)
(* SpecStock follows one call of get_stock_info_with_api request by        *)
(* request.                                                                *)

\* Items of response.output a call may have to skip or to match.
MaxOutput == 2

StockTickers == {"AAPL"}

\* args.get("ticker_symbol") of an arguments object without that key.
None == "None"

\* The text of a tool call's arguments: not JSON, a JSON array, or a JSON
\* object whose ticker_symbol is sym (None when it has no such key).
ArgsText(k, sym) == [k |-> k, ticker_symbol |-> sym]

ArgsTexts ==
    { ArgsText("notjson", None), ArgsText("array", None), ArgsText("object", None),
      ArgsText("object", "AAPL"), ArgsText("object", "MSFT") }

OutputItem(type, name, args, id) ==
    [type |-> type, name |-> name, arguments |-> args, call_id |-> id]

OutputItems ==
    { OutputItem("message", "", ArgsText("none", None), "") }
    \cup { OutputItem("function_call", "other_tool", ArgsText("object", "AAPL"), "call_0") }
    \cup { OutputItem("function_call", "get_stock_info", a, id) :
             a \in ArgsTexts, id \in {"call_1", "call_2"} }

LLMResponse(output, text) == [output |-> output, output_text |-> text]

NoResponse == LLMResponse(<<>>, "none")

FirstResponses ==
    { LLMResponse(o, t) : o \in SeqsUpTo(OutputItems, MaxOutput),
                          t \in {"", "direct answer"} }

FinalTexts == {"final answer", ""}

\* A Python value handed around as a result: a str or a number, written as
\* the parts its text is made of.
StockValue(kind, parts) == [kind |-> kind, parts |-> parts]

Text(parts) == StockValue("str", parts)

\* str(result), line 257
PyStr(value) == Text(value.parts)

\* What the quote API does with a request.  http "raise": requests.get
\* raises.  Otherwise body is the reply's body: not JSON, a JSON number, a
\* JSON array, or a JSON object whose "Global Quote" value is quote.
QuoteValue(k, hasPrice, price) == [k |-> k, has_price |-> hasPrice, price |-> price]

NoQuote == QuoteValue("absent", FALSE, Text(<<>>))

QuoteValues ==
    { NoQuote,
      QuoteValue("null", FALSE, Text(<<>>)),
      QuoteValue("object", FALSE, Text(<<>>)),
      QuoteValue("object", TRUE, Text(<< "189.50" >>)),
      QuoteValue("object", TRUE, StockValue("num", << "189.5" >>)),
      \* a string: has_price tells whether "05. price" is a substring of it
      QuoteValue("string", FALSE, Text(<<>>)),
      QuoteValue("string", TRUE, Text(<<>>)) }

QuoteReply(http, body, quote) == [http |-> http, body |-> body, quote |-> quote]

QuoteReplies ==
    { QuoteReply("raise", "none", NoQuote), QuoteReply("ok", "notjson", NoQuote),
      QuoteReply("ok", "number", NoQuote), QuoteReply("ok", "array", NoQuote) }
    \cup { QuoteReply("ok", "object", q) : q \in QuoteValues }

\* The outcome of a call: a returned value or a raised exception.
Returned(value) == [raised |-> FALSE, exc |-> "none", value |-> value]
Raising(e) == [raised |-> TRUE, exc |-> e, value |-> Text(<<>>)]

CouldNotRetrieve(ticker_symbol) == Text(<< "Could not retrieve price for ", ticker_symbol >>)

ErrorText(e) == Text(<< "Error: ", e >>)

\* The try block of get_stock_info, lines 216-222.
GetStockInfoBody(ticker_symbol, api) ==
    IF api.http = "raise" THEN Raising("ConnectionError")
    ELSE IF api.body = "notjson" THEN Raising("JSONDecodeError")
    ELSE IF api.body = "number" THEN Raising("TypeError")   \* "Global Quote" in 5
    ELSE IF api.body = "array" \/ api.quote.k = "absent"
    THEN Returned(CouldNotRetrieve(ticker_symbol))
    ELSE IF api.quote.k = "null" THEN Raising("TypeError")  \* "05. price" in None
    ELSE IF ~api.quote.has_price
    THEN Returned(CouldNotRetrieve(ticker_symbol))
    ELSE IF api.quote.k = "string" THEN Raising("TypeError") \* "..."["05. price"]
    ELSE Returned(api.quote.price)

\* An except clause for request errors only.
CaughtByExcept_RequestErrorsOnly(e) == e = "ConnectionError"

\* except Exception, line 224.
CaughtByExcept(e) == TRUE

\* get_stock_info, lines 210-225.
get_stock_info(ticker_symbol, api) ==
    LET r == GetStockInfoBody(ticker_symbol, api) IN
    IF r.raised /\ CaughtByExcept(r.exc)
    THEN Returned(ErrorText(r.exc))
    ELSE r

\* The prompt of lines 237 and 252.
UserRequest(ticker) == << "Get the current stock information for the ticker: ", ticker >>

LLMRequest(input, tools) == [input |-> input, tools |-> tools]

\* line 242
IsStockCall(item) == item.type = "function_call" /\ item.name = "get_stock_info"

\* The index of the item at which the loop of lines 241-268 returns, 0 when
\* it runs to its end.
RECURSIVE MatchingItem(_, _)
MatchingItem(output, i) ==
    IF i > Len(output) THEN 0
    ELSE IF IsStockCall(output[i]) THEN i
    ELSE MatchingItem(output, i + 1)

\* The follow-up without the model's function-call item.
FollowUpMessages_NoCallItem(ticker, tool_call, result) ==
    << [role |-> "user", content |-> UserRequest(ticker)],
       [type |-> "function_call_output", call_id |-> tool_call.call_id,
        output |-> PyStr(result)] >>

\* messages, lines 251-259.
FollowUpMessages(ticker, tool_call, result) ==
    << [role |-> "user", content |-> UserRequest(ticker)],
       tool_call,
       [type |-> "function_call_output", call_id |-> tool_call.call_id,
        output |-> PyStr(result)] >>

NoCall == OutputItem("none", "", ArgsText("none", None), "")

\* get_stock_info_with_api(ticker) is entered.
StockStart(ticker) ==
    [pc |-> "request", ticker |-> ticker, requests |-> <<>>, response |-> NoResponse,
     tool_call |-> NoCall, quotes |-> <<>>, api |-> QuoteReply("none", "none", NoQuote),
     result |-> Returned(Text(<<>>)), final_text |-> "none", ret |-> "unset", exc |-> "none"]

session == << aggregates, status, exc, action, pc, pnd_locals, run_locals >>

InitStock ==
    /\ InitSession
    /\ voice = Idle /\ speech = Idle /\ video = Idle
    /\ stock \in { StockStart(t) : t \in StockTickers }

\* Lines 234-238: the first request, with the tool schema.
SendRequest ==
    /\ stock.pc = "request"
    /\ UNCHANGED << session, voice, speech, video >>
    /\ LET sent == Append(stock.requests,
                          LLMRequest(UserRequest(stock.ticker), TRUE)) IN
       \/ stock' = [stock EXCEPT !.requests = sent, !.pc = "raised", !.exc = "APIError"]
       \/ \E r \in FirstResponses :
            stock' = [stock EXCEPT !.requests = sent, !.response = r, !.pc = "scan"]

\* Lines 241-245 and 270-271: the loop over response.output up to the first
\* get_stock_info call and json.loads of its arguments, or the return of the
\* first reply's text.
ScanOutput ==
    /\ stock.pc = "scan"
    /\ UNCHANGED << session, voice, speech, video >>
    /\ LET i == MatchingItem(stock.response.output, 1) IN
       IF i = 0
       THEN stock' = [stock EXCEPT !.ret = stock.response.output_text,
                                   !.pc = "returned"]
       ELSE LET call == stock.response.output[i] IN
            IF call.arguments.k = "notjson"
            THEN stock' = [stock EXCEPT !.tool_call = call, !.pc = "raised",
                                        !.exc = "JSONDecodeError"]
            ELSE IF call.arguments.k = "array"
            THEN stock' = [stock EXCEPT !.tool_call = call, !.pc = "raised",
                                        !.exc = "AttributeError"]
            ELSE stock' = [stock EXCEPT !.tool_call = call, !.pc = "execute"]

\* Line 248: get_stock_info on the call's ticker_symbol.
ExecuteCall ==
    /\ stock.pc = "execute"
    /\ UNCHANGED << session, voice, speech, video >>
    /\ \E api \in QuoteReplies :
         LET ticker_symbol == stock.tool_call.arguments.ticker_symbol
             r == get_stock_info(ticker_symbol, api) IN
         stock' = [stock EXCEPT !.quotes = Append(stock.quotes, ticker_symbol),
                                !.api = api,
                                !.result = r,
                                !.pc = IF r.raised THEN "raised" ELSE "follow_up",
                                !.exc = r.exc]

\* Lines 251-268: the follow-up request and the return of its text.
SendFollowUp ==
    /\ stock.pc = "follow_up"
    /\ UNCHANGED << session, voice, speech, video >>
    /\ LET sent == Append(stock.requests,
                          LLMRequest(FollowUpMessages(stock.ticker, stock.tool_call,
                                                      stock.result.value), TRUE)) IN
       \/ stock' = [stock EXCEPT !.requests = sent, !.pc = "raised", !.exc = "APIError"]
       \/ \E t \in FinalTexts :
            stock' = [stock EXCEPT !.requests = sent, !.final_text = t, !.ret = t,
                                   !.pc = "returned"]

NextStock == SendRequest \/ ScanOutput \/ ExecuteCall \/ SendFollowUp

SpecStock == InitStock /\ [][NextStock]_vars

---------------------------------------------------------------------------
(* BrainRotGenerator: get_eleven_labs_voices and select_voice.             *)
(* SpecVoice follows one call of select_voice.                             *)

\* Voices in the catalogue's reply, and characters in the typed line.
MaxVoices == 2
MaxInputLen == 2

\* lines 500, 518, 527, 531
DefaultVoice == "21m00Tcm4TlvDq8ikWAM"

\* An entry of the catalogue; has_name is whether it has the 'name' key.
VoiceEntry(hasName, id) == [has_name |-> hasName, voice_id |-> id]

VoiceEntries ==
    { VoiceEntry(TRUE, id) : id \in {"v1", "v2", DefaultVoice} }
    \cup { VoiceEntry(FALSE, "v1") }

\* What get_eleven_labs_voices returns, lines 466-492: None (a missing key,
\* a status other than 200, an exception) or the reply's "voices" list.
VoicesResult(isNone, why, list) == [none |-> isNone, why |-> why, list |-> list]

VoicesResults ==
    { VoicesResult(TRUE, why, <<>>) : why \in {"no_key", "status", "exception"} }
    \cup { VoicesResult(FALSE, "ok", l) : l \in SeqsUpTo(VoiceEntries, MaxVoices) }

\* The characters of a typed line.
InputChars == {"0", "1", "2", "3", "-", "+", " ", "a"}

InputLines == SeqsUpTo(InputChars, MaxInputLen)

Digits == {"0", "1", "2", "3"}

DigitValue(c) == CASE c = "0" -> 0 [] c = "1" -> 1 [] c = "2" -> 2 [] OTHER -> 3

RECURSIVE Strip(_)
Strip(line) ==
    IF line = <<>> THEN line
    ELSE IF Head(line) = " " THEN Strip(Tail(line))
    ELSE IF line[Len(line)] = " " THEN Strip(SubSeq(line, 1, Len(line) - 1))
    ELSE line

RECURSIVE DecimalValue(_)
DecimalValue(digits) ==
    IF digits = <<>> THEN 0
    ELSE 10 * DecimalValue(SubSeq(digits, 1, Len(digits) - 1))
         + DigitValue(digits[Len(digits)])

\* int(choice), line 520: surrounding blanks, an optional sign, digits;
\* anything else is a ValueError.
PyInt(line) ==
    LET body == Strip(line)
        signed == body # <<>> /\ Head(body) \in {"-", "+"}
        digits == IF signed THEN Tail(body) ELSE body IN
    IF digits = <<>> \/ \E i \in 1..Len(digits) : digits[i] \notin Digits
    THEN [ok |-> FALSE, value |-> 0]
    ELSE [ok |-> TRUE,
          value |-> IF signed /\ Head(body) = "-"
                    THEN 0 - DecimalValue(digits) ELSE DecimalValue(digits)]

\* A range test without its lower bound.
InRange_NoLowerBound(choice, n) == choice <= n

\* 1 <= choice <= len(voices), line 521
InRange(choice, n) == 1 <= choice /\ choice <= n

\* A returned voice identifier.
VoiceId(id) == [raised |-> FALSE, exc |-> "none", value |-> id]

\* voices[i], line 522: a negative index counts from the end.
PyIndex(list, i) ==
    IF i >= 0 /\ i < Len(list) THEN VoiceId(list[i + 1].voice_id)
    ELSE IF i < 0 /\ 0 - i <= Len(list) THEN VoiceId(list[Len(list) + i + 1].voice_id)
    ELSE [raised |-> TRUE, exc |-> "IndexError", value |-> "unset"]

\* Lines 513-531: the choice made of a typed line.
ChooseVoice(voices, line) ==
    IF line = <<>> THEN VoiceId(DefaultVoice)
    ELSE LET choice == PyInt(line) IN
         IF ~choice.ok THEN VoiceId(DefaultVoice)            \* except ValueError
         ELSE IF InRange(choice.value, Len(voices))
         THEN PyIndex(voices, choice.value - 1)
         ELSE VoiceId(DefaultVoice)

VoiceStart ==
    [pc |-> "get_voices", voices |-> VoicesResult(TRUE, "none", <<>>),
     asked |-> FALSE, input |-> <<>>, ret |-> "unset", exc |-> "none"]

InitVoice ==
    /\ InitSession
    /\ stock = Idle /\ speech = Idle /\ video = Idle
    /\ voice = VoiceStart

\* Line 496.
GetVoices ==
    /\ voice.pc = "get_voices"
    /\ UNCHANGED << session, stock, speech, video >>
    /\ \E v \in VoicesResults :
         voice' = [voice EXCEPT !.voices = v, !.pc = "list"]

\* Lines 498-510: the default for no voices, else the listing, which reads
\* every entry's 'name'.
ListVoices ==
    /\ voice.pc = "list"
    /\ UNCHANGED << session, stock, speech, video >>
    /\ IF voice.voices.list = <<>>
       THEN voice' = [voice EXCEPT !.ret = DefaultVoice, !.pc = "returned"]
       ELSE IF \E i \in 1..Len(voice.voices.list) : ~voice.voices.list[i].has_name
       THEN voice' = [voice EXCEPT !.exc = "KeyError", !.pc = "raised"]
       ELSE voice' = [voice EXCEPT !.pc = "input"]

\* Lines 513-531: the typed line and the choice.
ReadChoice ==
    /\ voice.pc = "input"
    /\ UNCHANGED << session, stock, speech, video >>
    /\ \E line \in InputLines :
         LET r == ChooseVoice(voice.voices.list, line) IN
         voice' = [voice EXCEPT !.asked = TRUE, !.input = line,
                                !.ret = r.value,
                                !.exc = r.exc,
                                !.pc = IF r.raised THEN "raised" ELSE "returned"]

NextVoice == GetVoices \/ ListVoices \/ ReadChoice

SpecVoice == InitVoice /\ [][NextVoice]_vars

---------------------------------------------------------------------------
(* BrainRotGenerator.text_to_speech, lines 533-585.                        *)
(* SpecSpeech follows one call.                                            *)

\* output_file, line 533
SpeechFile == "speech.mp3"

\* select_voice as text_to_speech sees it at line 547: the identifier it
\* returns or the exception that leaves it.
select_voice(v, line) ==
    IF v.list = <<>> THEN VoiceId(DefaultVoice)
    ELSE IF \E i \in 1..Len(v.list) : ~v.list[i].has_name
    THEN [raised |-> TRUE, exc |-> "KeyError", value |-> "unset"]
    ELSE ChooseVoice(v.list, line)

\* The lines a select_voice call can read: none unless it shows a list.
LinesRead(v) ==
    IF v.list = <<>> \/ \E i \in 1..Len(v.list) : ~v.list[i].has_name
    THEN { <<>> } ELSE InputLines

\* The body and the url of the POST, lines 550-568.
SynthesisRequest(text, voice_id) ==
    [voice_id |-> voice_id, text |-> text, model_id |-> "eleven_multilingual_v2"]

NoRequest == SynthesisRequest("", "unset")

\* What requests.post does, line 572: it raises, or a response comes back.
PostReply(raised, code) == [sent |-> TRUE, raised |-> raised, status_code |-> code]

NotPosted == [sent |-> FALSE, raised |-> FALSE, status_code |-> 0]

PostReplies ==
    { PostReply(TRUE, 0) } \cup { PostReply(FALSE, c) : c \in {200, 201, 401, 500} }

\* A status test that takes every success code.
StatusOk_AnySuccess(code) == code \in 200..299

\* response.status_code == 200, line 574
StatusOk(code) == code = 200

SpeechStart(text) ==
    [pc |-> "key", text |-> text, has_key |-> FALSE,
     voices |-> VoicesResult(TRUE, "none", <<>>), line |-> <<>>,
     voice_id |-> "unset", request |-> NoRequest, post |-> NotPosted,
     file |-> "untouched", ret |-> "unset", exc |-> "none"]

InitSpeech ==
    /\ InitSession
    /\ stock = Idle /\ voice = Idle /\ video = Idle
    /\ speech \in { SpeechStart(text) : text \in {"", "narration"} }

\* Lines 535-538: without the credential the call returns None at once.
CheckKey ==
    /\ speech.pc = "key"
    /\ UNCHANGED << session, stock, voice, video >>
    /\ \E api_key \in BOOLEAN :
         speech' = IF api_key
                   THEN [speech EXCEPT !.has_key = TRUE, !.pc = "select"]
                   ELSE [speech EXCEPT !.ret = None, !.pc = "returned"]

\* Line 547: select_voice, outside the try block.
SelectVoice ==
    /\ speech.pc = "select"
    /\ UNCHANGED << session, stock, voice, video >>
    /\ \E v \in VoicesResults \ { VoicesResult(TRUE, "no_key", <<>>) } :
         \E line \in LinesRead(v) :
            LET r == select_voice(v, line) IN
            speech' = IF r.raised
                      THEN [speech EXCEPT !.voices = v, !.line = line,
                                          !.exc = r.exc, !.pc = "raised"]
                      ELSE [speech EXCEPT !.voices = v, !.line = line,
                                          !.voice_id = r.value, !.pc = "post"]

\* Lines 570-585: the POST, the file written for status 200, and None for
\* anything else, an exception of the POST or of the file write included.
PostSynthesis ==
    /\ speech.pc = "post"
    /\ UNCHANGED << session, stock, voice, video >>
    /\ \E reply \in PostReplies :
         LET posted == [speech EXCEPT
                           !.request = SynthesisRequest(speech.text, speech.voice_id),
                           !.post = reply, !.pc = "returned"] IN
         IF reply.raised
         THEN speech' = [posted EXCEPT !.ret = None, !.exc = "RequestException"]
         ELSE IF StatusOk(reply.status_code)
         THEN \/ speech' = [posted EXCEPT !.file = "written", !.ret = SpeechFile]
              \/ \* open(output_file, 'wb') raises
                 speech' = [posted EXCEPT !.ret = None, !.exc = "OSError"]
              \/ \* f.write raises on the opened file
                 speech' = [posted EXCEPT !.file = "truncated", !.ret = None,
                                          !.exc = "OSError"]
         ELSE speech' = [posted EXCEPT !.ret = None]

NextSpeech == CheckKey \/ SelectVoice \/ PostSynthesis

SpecSpeech == InitSpeech /\ [][NextSpeech]_vars

---------------------------------------------------------------------------
(* BrainRotGenerator.create_brain_rot_video, lines 613-703.                *)
(* SpecVideo follows one call, library call by library call.               *)

\* Durations of the audio and of the background video, in seconds.
MaxDuration == 3

Durations == 1..MaxDuration

\* output_file, line 613
OutputFile == "brain_rot_result.mp4"

\* A clip of the library: where it starts and ends on the timeline of a
\* composition, and how long it lasts.
Clip(start, duration) == [start |-> start, duration |-> duration, end |-> start + duration]

NoClip == Clip(0, 0)

\* clip.set_duration(t): a copy with that duration and its end moved.
SetDuration(clip, t) == Clip(clip.start, t)

\* clip.subclip(t_start, t_end): the part between the two times.
Subclip(clip, t_start, t_end) == Clip(clip.start, t_end - t_start)

Max(a, b) == IF a >= b THEN a ELSE b

\* CompositeVideoClip([background, layer]): it lasts until its last clip
\* ends.
CompositeVideoClip(background, layer) == Clip(0, Max(background.end, layer.end))

\* Line 650: peter_img.set_duration(video.duration), before the durations
\* are reconciled.
OverlayClip(image, video_clip, audio_clip) ==
    SetDuration(image, video_clip.duration)

\* Lines 660-670: the video made as long as the audio.
Reconciled(video_clip, audio_clip) ==
    IF audio_clip.duration > video_clip.duration
    THEN SetDuration(video_clip, audio_clip.duration)
    ELSE Subclip(video_clip, 0, audio_clip.duration)

\* Lines 673-680: the clip that is written.
FinalVideo(video_clip, peter_img) ==
    IF peter_img # NoClip THEN CompositeVideoClip(video_clip, peter_img)
    ELSE video_clip

\* except Exception, line 699
CaughtByOuterExcept(e) == TRUE

\* An overlay handler that lets the exception go on.
CaughtByOverlayExcept_Nothing(e) == FALSE

\* except Exception, line 653
CaughtByOverlayExcept(e) == TRUE

VideoStart(moviepy) ==
    [pc |-> "load_video", moviepy |-> moviepy,
     video |-> NoClip, audio |-> NoClip, image |-> "unchecked", peter_img |-> NoClip,
     final_video |-> NoClip, written |-> 0, open |-> {},
     failed_at |-> "none", ret |-> "unset", exc |-> "none"]

InitVideo ==
    /\ InitSession
    /\ stock = Idle /\ voice = Idle /\ speech = Idle
    /\ video \in { VideoStart(m) : m \in BOOLEAN }

\* An exception raised at a stage inside the try block of line 621: lines
\* 699-703 return None; nothing is closed on this path.
Failed(call, stage, e) ==
    [call EXCEPT !.failed_at = stage, !.exc = e,
                 !.ret = IF CaughtByOuterExcept(e) THEN None ELSE "unset",
                 !.pc = IF CaughtByOuterExcept(e) THEN "returned" ELSE "raised"]

Fail(stage, e) == video' = Failed(video, stage, e)

\* Line 623: VideoFileClip(video_file).
LoadVideo ==
    /\ video.pc = "load_video" /\ video.moviepy
    /\ UNCHANGED << session, stock, voice, speech >>
    /\ \/ Fail("load", "OSError")
       \/ \E v \in Durations :
            video' = [video EXCEPT !.video = Clip(0, v), !.open = @ \cup {"video"},
                                   !.pc = "load_audio"]

\* Line 624: AudioFileClip(audio_file).
LoadAudio ==
    /\ video.pc = "load_audio"
    /\ UNCHANGED << session, stock, voice, speech >>
    /\ \/ Fail("load", "OSError")
       \/ \E a \in Durations :
            video' = [video EXCEPT !.audio = Clip(0, a), !.open = @ \cup {"audio"},
                                   !.pc = "overlay"]

\* An exception while the overlay is built, lines 653-655: peter_img is
\* None from here on and the call goes on.
OverlayFailed(call, e) ==
    IF CaughtByOverlayExcept(e)
    THEN [call EXCEPT !.pc = "reconcile"]
    ELSE Failed(call, "overlay", e)

\* Lines 630-657: the overlay image, when peter.png exists.
BuildOverlay ==
    /\ video.pc = "overlay"
    /\ UNCHANGED << session, stock, voice, speech >>
    /\ \/ \* os.path.exists is false
          video' = [video EXCEPT !.image = "absent", !.pc = "reconcile"]
       \/ \* ImageClip raises
          video' = OverlayFailed([video EXCEPT !.image = "unreadable"], "OSError")
       \/ \* set_position or set_duration raises on the image that was opened
          video' = OverlayFailed([video EXCEPT !.image = "dropped",
                                               !.open = @ \cup {"image"}],
                                 "ValueError")
       \/ \* the overlay is set up, resized or, after the inner except of
          \* line 642, in its original size
          \E size \in {"resized", "original"} :
            video' = [video EXCEPT
                        !.image = size, !.open = @ \cup {"image"},
                        !.peter_img = OverlayClip(Clip(0, 0), video.video, video.audio),
                        !.pc = "reconcile"]

\* Lines 660-670: set_duration or subclip.
Reconcile ==
    /\ video.pc = "reconcile"
    /\ UNCHANGED << session, stock, voice, speech >>
    /\ \/ Fail("reconcile", "ValueError")
       \/ video' = [video EXCEPT !.video = Reconciled(video.video, video.audio),
                                 !.pc = "composite"]

\* Lines 673-683: the composite, when there is an overlay, and set_audio.
Composite ==
    /\ video.pc = "composite"
    /\ UNCHANGED << session, stock, voice, speech >>
    /\ \/ Fail("composite", "ValueError")
       \/ video' = [video EXCEPT
                      !.final_video = FinalVideo(video.video, video.peter_img),
                      !.open = IF video.peter_img # NoClip
                               THEN @ \cup {"composite"} ELSE @,
                      !.pc = "encode"]

\* Line 687: write_videofile.
Encode ==
    /\ video.pc = "encode"
    /\ UNCHANGED << session, stock, voice, speech >>
    /\ \/ Fail("encode", "OSError")
       \/ video' = [video EXCEPT !.written = video.final_video.duration,
                                 !.pc = "close"]

\* Lines 691-697: the four close calls and the return of the path.
CloseClips ==
    /\ video.pc = "close"
    /\ UNCHANGED << session, stock, voice, speech >>
    /\ LET closed == {"video", "audio", "composite"}
                       \cup (IF video.peter_img # NoClip THEN {"image"} ELSE {}) IN
       video' = [video EXCEPT !.open = @ \ closed, !.ret = OutputFile,
                              !.pc = "returned"]

\* The call when the import of line 23 failed and the classes of lines
\* 29-48 stand in: they have no duration, so line 660 raises.
RunWithoutMoviepy ==
    /\ video.pc = "load_video" /\ ~video.moviepy
    /\ UNCHANGED << session, stock, voice, speech >>
    /\ \E image \in {"absent", "dropped"} :
         video' = Failed([video EXCEPT !.image = image], "reconcile", "AttributeError")

NextVideo ==
    \/ LoadVideo
    \/ LoadAudio
    \/ BuildOverlay
    \/ Reconcile
    \/ Composite
    \/ Encode
    \/ CloseClips
    \/ RunWithoutMoviepy

SpecVideo == InitVideo /\ [][NextVideo]_vars

---------------------------------------------------------------------------
(* Vocabulary of the properties. *)

Range(list) == { list[i] : i \in 1..Len(list) }

NoDuplicates(list) ==
    \A i, j \in 1..Len(list) : i # j => list[i] # list[j]

IsPrefix(a, b) == Len(a) <= Len(b) /\ \A i \in 1..Len(a) : a[i] = b[i]

FirstIndex(x, list) ==
    CHOOSE i \in 1..Len(list) : list[i] = x /\ \A j \in 1..(i - 1) : list[j] # x

\* out holds every value of inp once, ordered by first occurrence in inp.
IsFirstSeenOrder(out, inp) ==
    /\ NoDuplicates(out)
    /\ Range(out) = Range(inp)
    /\ \A i, j \in 1..Len(out) :
         i < j => FirstIndex(out[i], inp) < FirstIndex(out[j], inp)

\* The lists a reply carries under a key: those of its object when the reply
\* is one, none otherwise.
ReplyList(reply, key) ==
    IF reply.k = "object" /\ key \in reply.obj.keys THEN reply.obj[key] ELSE <<>>

\* The concatenation, in call order, of the lists the replies carry under key.
RECURSIVE Gathered(_, _)
Gathered(calls, key) ==
    IF calls = <<>> THEN <<>>
    ELSE ReplyList(Head(calls).reply, key) \o Gathered(Tail(calls), key)

\* What one ticker element contributes: a plain string itself, an object its
\* 'symbol' or else its 'ticker' value, any other shape nothing.
Contribution(t) ==
    IF t.kind = "str" THEN << JStr(t.val) >>
    ELSE IF t.kind = "dict" /\ t.symbol # Absent THEN << t.symbol >>
    ELSE IF t.kind = "dict" /\ t.ticker # Absent THEN << t.ticker >>
    ELSE <<>>

RECURSIVE Contributions(_)
Contributions(ts) ==
    IF ts = <<>> THEN <<>> ELSE Contribution(Head(ts)) \o Contributions(Tail(ts))

HasUrl(arr) == \E i \in 1..Len(arr) : arr[i].has_url

\* process_news_data has returned True / False to its caller.
ReturnedTrue == pc = "pnd_return" /\ ret = "True"
ReturnedFalse == pc = "pnd_return" /\ ret = "False"

\* process_news_data, called on an array, is over: it returned, or an
\* exception left it.
AbortedInCall == status = "crashed" /\ pc \in {"find", "extract"} /\ news_data.k = "array"
CallOver == news_data.k = "array" /\ (pc = "pnd_return" \/ AbortedInCall)

\* The step that starts a new aggregation (the reset of lines 378-380).
ResetStep == pc = "find" /\ pc' = "extract"

---------------------------------------------------------------------------
(* C1: in every state of a session, the states between two articles of     *)
(* process_news_data included, all_key_players and all_tickers hold no     *)
(* two equal entries, and a step only appends to them, the reset that      *)
(* starts a new aggregation excepted.                                      *)
C1_NoDuplicatesAppendOnly ==
    /\ NoDuplicates(all_key_players) /\ NoDuplicates(all_tickers)
    /\ [][ /\ NoDuplicates(all_key_players') /\ NoDuplicates(all_tickers')
           /\ \/ ResetStep
              \/ /\ IsPrefix(all_key_players, all_key_players')
                 /\ IsPrefix(all_tickers, all_tickers') ]_vars

\* Between two articles, after a repeated name and a repeated symbol were
\* left out.
C1_Witness ==
    /\ status = "running" /\ pc = "extract"
    /\ Len(extract_calls) = 1 /\ Len(urls) = 2
    /\ Len(all_insights[1].key_players) + Len(all_insights[1].tickers) = 3
    /\ Len(all_key_players) + Len(all_tickers) = 2
    /\ all_key_players # <<>> /\ all_tickers # <<>>

(* C2: after process_news_data returned True, all_tickers is exactly the    *)
(* list of the distinct symbols the replies' ticker elements contribute,    *)
(* in first-seen order.                                                     *)
C2_TickersFirstSeen ==
    ReturnedTrue =>
        IsFirstSeenOrder(all_tickers, Contributions(Gathered(extract_calls, "tickers")))

\* A plain string, a 'symbol' object and a 'ticker' object, two of them the
\* same symbol.
C2_Witness ==
    /\ ReturnedTrue
    /\ LET ts == Gathered(extract_calls, "tickers") IN
       /\ Len(ts) = 3
       /\ \E i \in 1..3 : ts[i].kind = "str"
       /\ \E i \in 1..3 : ts[i].kind = "dict" /\ ts[i].symbol # Absent
       /\ \E i \in 1..3 : ts[i].kind = "dict" /\ ts[i].symbol = Absent
                             /\ ts[i].ticker # Absent
    /\ Len(all_tickers) = 2

(* C3: after process_news_data returned True, all_key_players is the        *)
(* concatenation of the replies' key_players lists with every later         *)
(* exact-string duplicate removed; names that differ in case are distinct.  *)
C3_PlayersFirstSeen ==
    ReturnedTrue =>
        IsFirstSeenOrder(all_key_players, Gathered(extract_calls, "key_players"))

\* A name repeated across two articles, and its other-case spelling kept.
C3_Witness ==
    /\ ReturnedTrue
    /\ Len(extract_calls) = 2
    /\ Len(Gathered(extract_calls, "key_players")) = 3
    /\ all_key_players = << "Apple", "apple" >>
    /\ "Apple" \in Range(ReplyList(extract_calls[2].reply, "key_players"))

(* C4 as claimed: whenever process_news_data returns False the three        *)
(* aggregates are empty.                                                    *)
C4_Claim_EmptyAfterFalse ==
    ReturnedFalse =>
        all_insights = <<>> /\ all_key_players = <<>> /\ all_tickers = <<>>

(* C4 as amended: the reset comes after the url check.  A call that         *)
(* returns False leaves the three aggregates as they were before it; a call *)
(* that finds a url empties the three of them before its first extraction.  *)
C4_ResetOnlyWithUrl ==
    [][ pc = "find" =>
          /\ pc' = "pnd_return" =>
                ret' = "False" /\ ~HasUrl(news_data'.arr) /\ UNCHANGED aggregates
          /\ pc' = "extract" =>
                /\ HasUrl(news_data'.arr)
                /\ all_insights' = <<>> /\ all_key_players' = <<>> /\ all_tickers' = <<>>
      ]_vars

\* A call returned False while the aggregates of an earlier research action
\* are still there.
C4_Witness ==
    /\ ReturnedFalse
    /\ all_insights # <<>> /\ all_key_players # <<>> /\ all_tickers # <<>>

(* C5 as claimed: a process_news_data call on an article list ends by       *)
(* returning True exactly when an element has 'url', whatever the           *)
(* extractions return, and by returning False, without any extraction call, *)
(* exactly when none has.                                                   *)
C5_Claim_TrueIffUrl ==
    CallOver =>
        /\ (ret = "True") <=> HasUrl(news_data.arr)
        /\ (ret = "False") <=> ~HasUrl(news_data.arr)
        /\ ret = "False" => extract_calls = <<>>

(* C6 as claimed: a process_news_data call on n articles with 'url' ends    *)
(* after exactly n extraction calls in discovery order, all_insights then   *)
(* holds n records with those urls in order, and the record of a reply that *)
(* is not JSON is empty; no failure for one article aborts the batch.       *)
C6_Claim_EveryUrlProcessed ==
    (CallOver /\ ~ScanRaises(news_data.arr)) =>
        LET expected == CollectUrls(news_data.arr, 1) IN
        /\ Len(extract_calls) = Len(expected)
        /\ \A i \in 1..Len(extract_calls) : extract_calls[i].url = expected[i]
        /\ expected # <<>> =>
             /\ Len(all_insights) = Len(expected)
             /\ \A i \in 1..Len(all_insights) :
                  /\ all_insights[i].url = expected[i]
                  /\ extract_calls[i].reply.k = "notjson" =>
                       /\ all_insights[i].insights = <<>>
                       /\ all_insights[i].key_players = <<>>
                       /\ all_insights[i].tickers = <<>>

(* C7 as claimed: no failure of an upstream call and no malformed upstream  *)
(* payload leaves a menu action as an exception: the session never dies of  *)
(* one.                                                                     *)
C7_Claim_NothingPropagates == status # "crashed"

(* C8: get_stock_info_with_api keeps the two-step protocol.  Its first     *)
(* request is the user request with the tool schema.  get_stock_info runs  *)
(* only for the first get_stock_info call of the reply, once, on that      *)
(* call's ticker_symbol; the one follow-up request carries the user        *)
(* message, the call item and a function_call_output with the call's       *)
(* call_id and the text of the local result, in this order.  When the     *)
(* call returns, it returns the follow-up's text if the first reply held   *)
(* such a call, and otherwise the first reply's text after one request and *)
(* no quote call.                                                          *)
TheCall(response) ==
    response.output[
        CHOOSE i \in 1..Len(response.output) :
            /\ IsStockCall(response.output[i])
            /\ \A j \in 1..(i - 1) : ~IsStockCall(response.output[j]) ]

HasStockCall(response) ==
    \E i \in 1..Len(response.output) : IsStockCall(response.output[i])

C8_TwoStepProtocol ==
    /\ Len(stock.requests) <= 2 /\ Len(stock.quotes) <= 1
    /\ stock.requests # <<>> =>
         stock.requests[1] = LLMRequest(UserRequest(stock.ticker), TRUE)
    /\ stock.quotes # <<>> =>
         /\ HasStockCall(stock.response)
         /\ Len(stock.requests) >= 1
         /\ stock.quotes[1] = TheCall(stock.response).arguments.ticker_symbol
    /\ Len(stock.requests) = 2 =>
         /\ Len(stock.quotes) = 1
         /\ stock.requests[2].input =
              << [role |-> "user", content |-> UserRequest(stock.ticker)],
                 TheCall(stock.response),
                 [type |-> "function_call_output",
                  call_id |-> TheCall(stock.response).call_id,
                  output |-> PyStr(stock.result.value)] >>
    /\ stock.pc = "returned" =>
         IF HasStockCall(stock.response)
         THEN Len(stock.quotes) = 1 /\ Len(stock.requests) = 2
              /\ stock.ret = stock.final_text
         ELSE stock.quotes = <<>> /\ Len(stock.requests) = 1
              /\ stock.ret = stock.response.output_text

\* A call returned the follow-up's text after skipping an item that was no
\* get_stock_info call.
C8_Witness ==
    /\ stock.pc = "returned"
    /\ Len(stock.response.output) = 2
    /\ ~IsStockCall(stock.response.output[1])
    /\ IsStockCall(stock.response.output[2])
    /\ stock.ret = "final answer"

(* C9: get_stock_info never raises.  It returns the price when the reply   *)
(* holds a quote object with a price, the 'Could not retrieve price for    *)
(* <ticker>' message when the reply is a JSON object without the quote     *)
(* object or without its price, and 'Error: <exception text>' when the     *)
(* HTTP request or the JSON decoding raises.                               *)
C9_GetStockInfoNeverRaises ==
    stock.quotes # <<>> =>
        /\ ~stock.result.raised
        /\ (stock.api.http = "ok" /\ stock.api.body = "object"
                /\ stock.api.quote.k = "object" /\ stock.api.quote.has_price)
             => stock.result.value = stock.api.quote.price
        /\ (stock.api.http = "ok" /\ stock.api.body = "object"
                /\ (stock.api.quote.k = "absent"
                    \/ (stock.api.quote.k = "object" /\ ~stock.api.quote.has_price)))
             => stock.result.value
                  = Text(<< "Could not retrieve price for ", stock.quotes[1] >>)
        /\ stock.api.http = "raise"
             => stock.result.value = Text(<< "Error: ", "ConnectionError" >>)
        /\ (stock.api.http = "ok" /\ stock.api.body = "notjson")
             => stock.result.value = Text(<< "Error: ", "JSONDecodeError" >>)

\* The reply's body was not JSON and the call went on with the error string.
C9_Witness ==
    /\ stock.pc = "follow_up"
    /\ stock.api.http = "ok" /\ stock.api.body = "notjson"
    /\ stock.result.value = Text(<< "Error: ", "JSONDecodeError" >>)

(* C10: select_voice never raises on the typed line.  It returns the       *)
(* default voice identifier when there are no voices, when the line is     *)
(* empty, when the line is no integer, and when the integer is outside     *)
(* 1..len(voices), zero and negative numbers included; for an integer k in *)
(* 1..len(voices) it returns the voice_id of the k-th listed voice, and it *)
(* returns no other identifier than the default in any other case.         *)
Chosen(v) == PyInt(v.input)

ValidChoice(v) ==
    /\ v.asked
    /\ v.input # <<>>
    /\ Chosen(v).ok
    /\ Chosen(v).value \in 1..Len(v.voices.list)

C10_SelectVoiceDefault ==
    /\ voice.asked => voice.pc = "returned"
    /\ voice.pc = "returned" =>
         /\ ~ValidChoice(voice) => voice.ret = DefaultVoice
         /\ ValidChoice(voice) =>
              voice.ret = voice.voices.list[Chosen(voice).value].voice_id
         /\ voice.ret # DefaultVoice => ValidChoice(voice)

\* Zero was typed against a list whose last voice is not the default, and
\* the default was returned.
C10_Witness ==
    /\ voice.pc = "returned"
    /\ voice.asked
    /\ Chosen(voice).ok /\ Chosen(voice).value = 0
    /\ voice.voices.list[Len(voice.voices.list)].voice_id # DefaultVoice
    /\ voice.ret = DefaultVoice

(* C11: text_to_speech returns the output file path only when the          *)
(* synthesis POST came back with status 200, and only then is the audio    *)
(* file written; with a missing credential, a POST that raises or a status *)
(* other than 200 it returns None and leaves the file alone.               *)
C11_SpeechOnlyOn200 ==
    /\ speech.ret = SpeechFile =>
         speech.post.sent /\ speech.post.status_code = 200 /\ speech.file = "written"
    /\ speech.file # "untouched" =>
         speech.post.sent /\ ~speech.post.raised /\ speech.post.status_code = 200
    /\ (speech.pc = "returned"
          /\ (~speech.has_key \/ speech.post.raised \/ speech.post.status_code # 200))
         => speech.ret = None /\ speech.file = "untouched"

\* The POST was answered with a success status other than 200.
C11_Witness ==
    /\ speech.pc = "returned"
    /\ speech.post.sent /\ speech.post.status_code = 201
    /\ speech.ret = None /\ speech.file = "untouched"

(* C12 as claimed: the clip create_brain_rot_video writes lasts as long as  *)
(* the audio, with or without the overlay: a shorter video is extended to  *)
(* the audio's duration and a longer one is trimmed to the audio's         *)
(* duration from time 0.                                                   *)
C12_Claim_OutputLastsAsAudio ==
    video.written # 0 =>
        /\ video.video = Clip(0, video.audio.duration)
        /\ video.written = video.audio.duration

(* C13 as claimed: an overlay that is composited lasts as long as the      *)
(* final clip, whether the audio is longer than the video, shorter or as   *)
(* long.                                                                   *)
C13_Claim_OverlayLastsAsOutput ==
    (video.final_video # NoClip /\ video.peter_img # NoClip) =>
        video.peter_img.duration = video.final_video.duration

(* C14 as claimed: when create_brain_rot_video has returned, with the path *)
(* or after an exception at any stage, no media handle it opened is open.  *)
C14_Claim_AllHandlesClosed ==
    video.pc = "returned" => video.open = {}

(* C15: no exception of a library call leaves create_brain_rot_video: a    *)
(* failure while loading, reconciling, compositing or encoding returns     *)
(* None, the path is returned only after the encode step completed, and a  *)
(* failure while the overlay is built fails nothing: the call goes on      *)
(* without an overlay.                                                     *)
C15_FailuresReturnNone ==
    /\ video.pc # "raised"
    /\ video.failed_at # "overlay"
    /\ video.failed_at # "none" => video.pc = "returned" /\ video.ret = None
    /\ video.ret = OutputFile => video.written # 0 /\ video.failed_at = "none"
    /\ video.image \in {"unreadable", "dropped"} =>
         /\ video.peter_img = NoClip
         /\ video.final_video \in {NoClip, video.video}

\* The path was returned for a clip without overlay after the overlay
\* could not be built.
C15_Witness ==
    /\ video.pc = "returned" /\ video.ret = OutputFile
    /\ video.image = "dropped"
    /\ video.final_video = video.video

(* C16 as claimed: the session serves one menu choice at a time.  '1'      *)
(* runs research, '2' the ticker lookup, '3' the placeholder, '4' the      *)
(* highlight mode, any other line but '5' runs no action; the menu is      *)
(* shown again only when the action is over; and the loop ends only by     *)
(* choice '5' or a keyboard interrupt, which both exit with status 0.      *)
C16_Claim_MenuLoop ==
    /\ status = "running" =>
         /\ (pc = "menu") <=> (action = "none")
         /\ (pc = "menu") <=> (menu_choice = "none")
         /\ menu_choice = "1" => action = "research"
         /\ menu_choice = "2" => action = "lookup"
         /\ menu_choice = "3" => action = "placeholder" /\ pc = "message"
         /\ menu_choice = "4" => action = "brain_rot"
         /\ menu_choice \notin {"none", "1", "2", "3", "4"} =>
              action = "invalid" /\ pc = "message"
    /\ status # "running" =>
         /\ status = "exited"
         /\ menu_choice = "5" \/ exc = "KeyboardInterrupt"

(* C17 as claimed: every entry of all_tickers is a string, whatever the    *)
(* shape of the ticker elements the extractions returned, so the join of   *)
(* generate_brain_rot_explanation never fails.                             *)
C17_Claim_TickersAreStrings ==
    /\ \A i \in 1..Len(all_tickers) : all_tickers[i].kind = "str"
    /\ ~(status = "crashed" /\ pc = "generate" /\ exc = "TypeError")

(* C18: the three aggregates change only inside process_news_data, in the  *)
(* reset that starts an aggregation and in its extraction turns.  The      *)
(* ticker lookup ('2'), the placeholder ('3'), any other menu line, an     *)
(* action that ends at an empty query and one whose discovery text is not  *)
(* JSON leave the three of them as they were.                              *)
C18_AggregatesFrame ==
    [][ /\ aggregates' # aggregates =>
             /\ menu_choice \in {"1", "4"}
             /\ pc \in {"find", "extract"} /\ pc' = "extract"
        /\ (pc \in {"query", "find"} /\ pc' = "menu") => aggregates' = aggregates
        /\ menu_choice' \notin {"none", "1", "4"} => aggregates' = aggregates
      ]_vars

\* A lookup was chosen with the aggregates of an earlier action in place.
C18_Witness ==
    /\ status = "running"
    /\ menu_choice = "2" /\ pc = "ticker"
    /\ all_insights # <<>> /\ all_key_players # <<>> /\ all_tickers # <<>>

(* C19: in highlight mode the steps come in order, each only after its     *)
(* predecessor succeeded: the narration after process_news_data returned   *)
(* True in the same action, speech synthesis after the answer 'y', the     *)
(* search for the background video and the composition after synthesis     *)
(* returned a path, and the report of success after composition returned   *)
(* a path.                                                                 *)
Follows(later, earlier) ==
    \A j \in 1..Len(steps) :
        steps[j] = later => \E i \in 1..(j - 1) : steps[i] = earlier

C19_HighlightStepOrder ==
    /\ Follows("narration", "process_true")
    /\ Follows("synthesis", "yes")
    /\ Follows("yes", "narration")
    /\ Follows("locate", "speech_path")
    /\ Follows("compose", "speech_path")
    /\ Follows("compose", "locate")
    /\ Follows("success", "compose_path")
    /\ "synthesis" \in Range(steps) => "no" \notin Range(steps)
    /\ "locate" \in Range(steps) => "speech_null" \notin Range(steps)
    /\ "success" \in Range(steps) => "compose_null" \notin Range(steps)
    /\ (action = "brain_rot" /\ pc \in {"ask_video", "speech", "compose", "enter"})
         => steps[1] = "process_true" /\ steps[2] = "narration"
    /\ (status = "running" /\ pc = "speech") => steps[Len(steps)] = "yes"
    /\ (status = "running" /\ pc = "compose") => steps[Len(steps)] = "speech_path"

\* Success was reported at the end of the whole chain.
C19_Witness ==
    /\ action = "brain_rot" /\ pc = "enter"
    /\ steps = << "process_true", "narration", "yes", "synthesis", "speech_path",
                  "locate", "compose", "compose_path", "success" >>

(* C20: a ticker element with both a 'symbol' and a 'ticker' field         *)
(* contributes its 'symbol' only: all_tickers holds its 'ticker' value     *)
(* only if another element contributed that value, also when the 'symbol'  *)
(* was in all_tickers already.                                             *)
ContributedBy(value, t) ==
    \/ t.kind = "str" /\ JStr(t.val) = value
    \/ t.kind = "dict" /\ t.symbol = value
    \/ t.kind = "dict" /\ t.symbol = Absent /\ t.ticker = value

HasBothKeys(t) == t.kind = "dict" /\ t.symbol # Absent /\ t.ticker # Absent

C20_SymbolBeforeTicker ==
    (status = "running" /\ pc \in {"extract", "pnd_return"} /\ ret # "False") =>
        LET ts == Gathered(extract_calls, "tickers") IN
        \A i \in 1..Len(ts) :
            HasBothKeys(ts[i]) =>
                /\ ts[i].symbol \in Range(all_tickers)
                /\ ts[i].ticker \in Range(all_tickers) =>
                     \E j \in 1..Len(ts) : ContributedBy(ts[i].ticker, ts[j])

\* An element with both fields came after its 'symbol' was in all_tickers,
\* and its 'ticker' value is not there.
C20_Witness ==
    /\ ReturnedTrue
    /\ LET ts == Gathered(extract_calls, "tickers") IN
       \E i \in 2..Len(ts) :
          /\ HasBothKeys(ts[i])
          /\ \E j \in 1..(i - 1) : ContributedBy(ts[i].symbol, ts[j])
          /\ ts[i].ticker \notin Range(all_tickers)

====
